---- MODULE Spec2Model ----
(***************************************************************************)
(* Model of the voice recording bot of src/main.py: the registry of active *)
(* recordings, the /start and /stop command handlers, the periodic         *)
(* transcription task, the voice join/leave listeners, the consent         *)
(* response handler, the per-user flush (process_user_recording) and the   *)
(* rejection consumer of on_ready.                                         *)
(*                                                                         *)
(* Every handler is a coroutine on one event loop: it runs atomically from *)
(* one await to the next.  Each action below is one such run.              *)
(*                                                                         *)
(* Five specifications share the actions:                                  *)
(*   Spec           the events of one guild, with captures, consent        *)
(*                  decisions, publishes and failures;                     *)
(*   SpecSessions   the session events of one guild, nobody captured;      *)
(*   SpecGuilds     the session events of two guilds;                      *)
(*   SpecRejections the rejection consumer beside one guild's sessions;    *)
(*   SpecRace       two sessions of one guild with one consenting member   *)
(*                  captured.                                              *)
(***************************************************************************)
EXTENDS Integers, Sequences, FiniteSets, TLC

\* ------------------------------------------------------------------ bounds
\* Total number of capture artifacts the voice layer writes in one behaviour.
MaxArtifacts == 2
\* Number of /start invocations that pass the checks in one behaviour of
\* SpecSessions and SpecGuilds.
MaxSessions == 2
\* The same in one behaviour of Spec and SpecRejections.
MaxCaptureSessions == 1
\* Number of messages the rejection subscription delivers in one behaviour.
MaxEvents == 14

\* --------------------------------------------------------------- constants
Guilds == {"gA", "gB"}
\* The guild whose events Spec and SpecRejections follow.
OneGuild == {"gA"}
Users == {"u1", "u2"}
\* Bot accounts never answer a consent request, so they never hold a consent
\* record; the members of the model are the human users.
Bots == {"bot"}
Members == Users
Nowhere == "nowhere"
NoSession == 0
\* the rejection counter's threshold, `if counter != 7`
THRESHOLD == 7

\* The voice channel of a guild (each guild of the model has one).
ChannelOf(g) == <<"vc", g>>

VARIABLES
  active_recordings,  \* VoiceStateManager.active_recordings: guild -> session
  timers,             \* guilds whose scheduled_transcription_task loop is alive
  connected,          \* voice_state.connected, per guild
  recording,          \* voice_state.recorder.recording, per guild
  output,             \* voice_state.recorder.output: artifacts of the recorder
  consent_file,       \* consent.json: user -> "none" (no key) | "allow" | "deny"
  voice,              \* the voice channel (guild) each member sits in
  startPc,            \* /start handler per guild
  stopPc,             \* /stop handler per guild
  rotPc,              \* scheduled_transcription_task callback per guild
  leavePc,            \* on_voice_user_leave handler per guild
  arts,               \* artifact id -> [user, guild, mid]: who was captured where,
                      \* and (history) whether the participant's last decision,
                      \* made while the capture waited for its flush, withdrew
                      \* a consent that was granted
  files,              \* artifact id -> "raw" | "moved" | "deleted"
  pubQ,               \* redis publishes awaited inside asyncio.gather
  published,          \* messages delivered to AudioQueue
  pubCount,           \* artifact id -> number of messages published for it
  pubFailed,          \* artifacts whose publish raised
  flushLog,           \* history: what a flush read and decided for an artifact
  sessions,           \* history: sessions added to the registry and not removed
  nextSid,            \* next fresh session id
  budget,             \* /start invocations that may still pass the checks
  stopHistory,        \* history: the /stop invocations since the guild's last
                      \* /start event: "none", "once", "again" (twice or
                      \* more); "untracked" in the specifications that do
                      \* not follow it
  counter,            \* on_ready: counter
  listening,          \* on_ready: the `async for` loop is still running
  errorCues,          \* error cues played by the rejection consumer
  rejArrived,         \* history: messages the broker delivered
  rejLost,            \* history: a parsable event arrived and no loop took it
  rejMalformed,       \* history: an unparsable message has arrived
  rejRun,             \* history: length of the current run of eligible events
  rejGuild,           \* history: guild of the current run
  rejCueAt,           \* history: positions in the run at which a cue was played
  history             \* history of the answers given, followed where on is TRUE:
                      \* startReply, the last answer of /start per guild;
                      \* rejected, a consent response of another user was
                      \* refused; decided, the last accepted decision per user

sessVars == <<active_recordings, timers, connected, recording, output, startPc,
              stopPc, rotPc, leavePc, sessions, nextSid, budget, stopHistory>>
envVars == <<consent_file, voice>>
artVars == <<arts, files, pubQ, published, pubCount, pubFailed, flushLog>>
rejVars == <<counter, listening, errorCues, rejArrived, rejLost, rejMalformed,
             rejRun, rejGuild, rejCueAt>>
vars == <<sessVars, envVars, artVars, rejVars, history>>

InitWith(n, h, on) ==
  /\ active_recordings = [g \in Guilds |-> NoSession]
  /\ timers = {}
  /\ connected = [g \in Guilds |-> FALSE]
  /\ recording = [g \in Guilds |-> FALSE]
  /\ output = [g \in Guilds |-> {}]
  /\ consent_file = [u \in Users |-> "none"]
  /\ voice = [m \in Members |-> Nowhere]
  /\ startPc = [g \in Guilds |-> "idle"]
  /\ stopPc = [g \in Guilds |-> "idle"]
  /\ rotPc = [g \in Guilds |-> "idle"]
  /\ leavePc = [g \in Guilds |-> "idle"]
  /\ arts = <<>>
  /\ files = <<>>
  /\ pubQ = {}
  /\ published = {}
  /\ pubCount = <<>>
  /\ pubFailed = {}
  /\ flushLog = {}
  /\ sessions = {}
  /\ nextSid = 1
  /\ budget = n
  /\ stopHistory = [g \in Guilds |-> h]
  /\ counter = 0
  /\ listening = TRUE
  /\ errorCues = 0
  /\ rejArrived = 0
  /\ rejLost = FALSE
  /\ rejMalformed = FALSE
  /\ rejRun = 0
  /\ rejGuild = Nowhere
  /\ rejCueAt = {}
  /\ history = [on |-> on,
                startReply |-> [g \in Guilds |-> "none"],
                rejected |-> FALSE,
                decided |-> [u \in Users |-> "none"]]

Init == InitWith(MaxCaptureSessions, "untracked", FALSE)

InitSessions == InitWith(MaxSessions, "none", TRUE)

InitGuilds == InitWith(MaxSessions, "none", FALSE)

\* ------------------------------------------------------- VoiceStateManager
RegistryGet(reg, g) == reg[g]

RegistryAdd(reg, g, s) == [reg EXCEPT ![g] = s]

\* A remove() that pops nothing.
RegistryKeep(reg, g) == reg

RegistryRemove(reg, g) == [reg EXCEPT ![g] = NoSession]

\* ----------------------------------------- scheduled_transcription_task
\* One Task object serves every guild.  start(ctx) spawns a loop bound to
\* ctx; stop() takes no argument: it sets the Task's stop event, which ends
\* every loop of the Task.
TaskStart(ts, g) == ts \cup {g}

TaskStop(ts) == {}

\* --------------------------------------------------------- ConsentManager
\* A consent test that only refuses a recorded denial.
GrantedUnlessDenied(cd, m) == m \in DOMAIN cd /\ cd[m] # "deny"

\* consent_data.get(str(user_id), False)
Granted(cd, m) == m \in DOMAIN cd /\ cd[m] = "allow"

\* str(m.id) in consent_data
HasRecord(cd, m) == m \in DOMAIN cd /\ cd[m] # "none"

\* The write of a handler whose load() returned an empty dictionary.
ConsentWriteFromEmpty(cd, u, action) ==
  [x \in DOMAIN cd |-> IF x = u THEN action ELSE "none"]

\* A write that stores the decision under every key.
ConsentWriteAll(cd, u, action) == [x \in DOMAIN cd |-> action]

\* consent_data[user_id] = action == "allow"
ConsentWrite(cd, u, action) == [cd EXCEPT ![u] = action]

\* ------------------------------------------------- process_user_recording
\* What one call does with artifact a of member m, up to its first await:
\* "deleted" (unlink, return None), "skipped" (return None, file untouched),
\* "moved" (shutil.move, then the publish is awaited), "raise" (shutil.move
\* finds no file).
process_user_recording(m, a, cd, fs, gone) ==
  IF ~Granted(cd, m) THEN "deleted"
  ELSE IF m \in gone \/ m \in Bots THEN "skipped"
  ELSE IF fs[a] # "raw" THEN "raise"
  ELSE "moved"

\* A message that does not name the session's channel and guild.
SegmentUnaddressed(a, g) ==
  [id |-> a, userId |-> arts[a].user, channelId |-> ChannelOf(Nowhere),
   guildId |-> Nowhere]

\* The message json.dumps builds for artifact a, flushed by guild g's handler.
Segment(a, g) ==
  [id |-> a, userId |-> arts[a].user, channelId |-> ChannelOf(g), guildId |-> g]

FlushResult(a, gone) ==
  process_user_recording(arts[a].user, a, consent_file, files, gone)

FlushRaises(g, gone) == \E a \in output[g] : FlushResult(a, gone) = "raise"

\* The captured members ctx.guild.get_member may fail to resolve at a flush:
\* those who are no longer in the guild's voice channel.
MayBeGone(g) == {arts[a].user : a \in output[g]} \ {m \in Members : voice[m] = g}

\* consent_manager.load(), the task list over recorder.output.items() and
\* the part of asyncio.gather that runs before the handler is resumed: every
\* task runs to its first await (the publish) or to its return.  gone are
\* the members get_member does not resolve.
Flush(g, h, gone) ==
  /\ files' = [a \in DOMAIN files |->
                 IF a \in output[g] /\ FlushResult(a, gone) = "deleted" /\ files[a] = "raw"
                   THEN "deleted"
                 ELSE IF a \in output[g] /\ FlushResult(a, gone) = "moved" THEN "moved"
                 ELSE files[a]]
  /\ pubQ' = pubQ \cup
       {[art |-> a, h |-> h, g |-> g, msg |-> Segment(a, g)] :
          a \in {x \in output[g] : FlushResult(x, gone) = "moved"}}
  /\ flushLog' = flushLog \cup
       {[art |-> a, consent |-> consent_file[arts[a].user],
         member |-> (arts[a].user \notin gone),
         raw |-> (files[a] = "raw")] : a \in output[g]}
  /\ UNCHANGED <<arts, published, pubCount, pubFailed>>

\* asyncio.gather has returned: no publish of this handler is pending.
Gathered(g, h) == ~\E p \in pubQ : p.g = g /\ p.h = h

\* voice_state.disconnect(): the connection and its capture are released.
Disconnect(g) ==
  /\ connected' = [connected EXCEPT ![g] = FALSE]
  /\ recording' = [recording EXCEPT ![g] = FALSE]

\* History of the /stop invocations of a guild, after event ev: a /start
\* event ("start") or an invocation of /stop ("stop").
StopHistoryAfter(h, ev) ==
  IF h = "untracked" THEN h
  ELSE IF ev = "start" THEN "none"
  ELSE IF h = "none" THEN "once"
  ELSE "again"

\* The history of answers after field f is given value v.
Track(h, f, v) == IF h.on THEN [h EXCEPT ![f] = v] ELSE h


\* -------------------------------------------------------------- environment
\* A member enters the guild's voice channel; on_voice_user_join runs: it
\* sends a consent request at most, which changes no state of the bot.
on_voice_user_join(m, g) ==
  /\ voice[m] = Nowhere
  /\ voice' = [voice EXCEPT ![m] = g]
  /\ UNCHANGED <<sessVars, consent_file, artVars, rejVars, history>>

\* The voice layer captures member m into a new file of the running recorder.
Speak(m, g) ==
  /\ Len(arts) < MaxArtifacts
  /\ connected[g] /\ recording[g]
  /\ voice[m] = g
  /\ ~\E a \in output[g] : arts[a].user = m
  /\ arts' = Append(arts, [user |-> m, guild |-> g, mid |-> FALSE])
  /\ files' = Append(files, "raw")
  /\ pubCount' = Append(pubCount, 0)
  /\ output' = [output EXCEPT ![g] = @ \cup {Len(arts) + 1}]
  /\ UNCHANGED <<active_recordings, timers, connected, recording, startPc,
                 stopPc, rotPc, leavePc, sessions, nextSid, budget, stopHistory,
                 envVars, pubQ, published, pubFailed, flushLog, rejVars, history>>

\* handle_consent_response: user c presses the button addressed to user t.
\* load, the assignment and save run without an await between them.
handle_consent_response(c, t, action) ==
  /\ consent_file' =
       IF c # t THEN consent_file
       ELSE ConsentWrite(consent_file, t, action)
  /\ arts' = [a \in DOMAIN arts |->
       IF /\ c = t /\ arts[a].user = t
          /\ files[a] = "raw" /\ ~\E e \in flushLog : e.art = a
         THEN [arts[a] EXCEPT !.mid =
                 IF action = "allow" THEN FALSE
                 ELSE @ \/ consent_file[t] = "allow"]
         ELSE arts[a]]
  /\ history' =
       IF c # t THEN Track(history, "rejected", TRUE)
       ELSE Track(history, "decided", [history.decided EXCEPT ![t] = action])
  /\ UNCHANGED <<sessVars, voice, files, pubQ, published, pubCount,
                 pubFailed, flushLog, rejVars>>

\* An awaited redis publish of process_user_recording returns or raises.
\* A raise is propagated by asyncio.gather to the awaiting handler; the other
\* publishes of that gather keep running.
PublishDone(p, ok) ==
  /\ p \in pubQ
  /\ LET mine == {x \in pubQ \ {p} : x.g = p.g /\ x.h = p.h}
         orphaned == {[q EXCEPT !.h = "orphan"] : q \in mine}
     IN
     IF ok
       THEN /\ published' = published \cup {p.msg}
            /\ pubCount' = [pubCount EXCEPT ![p.art] = @ + 1]
            /\ pubQ' = pubQ \ {p}
            /\ UNCHANGED <<pubFailed, rotPc, stopPc>>
       ELSE /\ pubFailed' = pubFailed \cup {p.art}
            /\ pubQ' = ((pubQ \ {p}) \ mine) \cup orphaned
            /\ rotPc' = IF p.h = "rot" THEN [rotPc EXCEPT ![p.g] = "failing"] ELSE rotPc
            /\ stopPc' = IF p.h = "stop" THEN [stopPc EXCEPT ![p.g] = "failing"] ELSE stopPc
            /\ UNCHANGED <<published, pubCount>>
  /\ UNCHANGED <<active_recordings, timers, connected, recording, output, startPc,
                 leavePc, sessions, nextSid, budget, stopHistory,
                 envVars, arts, files, flushLog, rejVars, history>>

\* ------------------------------------------------------------------ /start
\* Checks that leave out the requester's voice channel.
StartCheckRegistryOnly(author, g) ==
  IF RegistryGet(active_recordings, g) # NoSession THEN "AlreadyRecording" ELSE "ok"

\* Checks that leave out the registry.
StartCheckVoiceOnly(author, g) ==
  IF voice[author] # g THEN "NotInVoice" ELSE "ok"

\* The checks of start_recording before its try block.
StartCheck(author, g) ==
  IF voice[author] # g THEN "NotInVoice"
  ELSE IF RegistryGet(active_recordings, g) # NoSession THEN "AlreadyRecording"
  ELSE "ok"

\* /start is invoked (max_concurrency: one invocation per guild): the checks,
\* then channel.connect() is awaited.
start_recording_call(author, g) ==
  /\ startPc[g] = "idle"
  /\ IF StartCheck(author, g) # "ok"
       THEN UNCHANGED <<startPc, budget>>
       ELSE /\ budget > 0
            /\ budget' = budget - 1
            /\ startPc' = [startPc EXCEPT ![g] = "connecting"]
  /\ history' = Track(history, "startReply",
       [history.startReply EXCEPT ![g] = StartCheck(author, g)])
  /\ stopHistory' = [stopHistory EXCEPT ![g] = StopHistoryAfter(@, "start")]
  /\ UNCHANGED <<active_recordings, timers, connected, recording, output,
                 stopPc, rotPc, leavePc, sessions, nextSid,
                 envVars, artVars, rejVars>>

\* connect() returns; voice_state.start_recording() is awaited.
start_recording_connected(g) ==
  /\ startPc[g] = "connecting"
  /\ connected' = [connected EXCEPT ![g] = TRUE]
  /\ startPc' = [startPc EXCEPT ![g] = "starting"]
  /\ UNCHANGED <<active_recordings, timers, recording, output,
                 stopPc, rotPc, leavePc, sessions, nextSid, budget, stopHistory,
                 envVars, artVars, rejVars, history>>

\* start_recording() returns, or raises for want of a connection or because
\* a recording is in progress; the session is added to the registry, the
\* start cue is queued, the members needing consent are listed and the
\* first request is awaited.
start_recording_registered(g) ==
  /\ startPc[g] = "starting"
  /\ IF connected[g] /\ ~recording[g]
       THEN /\ recording' = [recording EXCEPT ![g] = TRUE]
            /\ output' = [output EXCEPT ![g] = {}]
            /\ active_recordings' = RegistryAdd(active_recordings, g, nextSid)
            /\ sessions' = sessions \cup {<<g, nextSid>>}
            /\ nextSid' = nextSid + 1
            /\ stopHistory' = [stopHistory EXCEPT ![g] = StopHistoryAfter(@, "start")]
            /\ startPc' = [startPc EXCEPT ![g] = "requesting"]
       ELSE /\ startPc' = [startPc EXCEPT ![g] = "failing"]
            /\ UNCHANGED <<recording, output, active_recordings, sessions, nextSid,
                           stopHistory>>
  /\ UNCHANGED <<timers, connected, stopPc, rotPc, leavePc, budget,
                 envVars, artVars, rejVars, history>>

\* The consent requests and ctx.send return and the rotation task is
\* started; or one of them raises.
start_recording_finish(g, ok) ==
  /\ startPc[g] = "requesting"
  /\ IF ok
       THEN /\ timers' = TaskStart(timers, g)
            /\ startPc' = [startPc EXCEPT ![g] = "idle"]
       ELSE /\ startPc' = [startPc EXCEPT ![g] = "failing"]
            /\ UNCHANGED timers
  /\ UNCHANGED <<active_recordings, connected, recording, output,
                 stopPc, rotPc, leavePc, sessions, nextSid, budget, stopHistory,
                 envVars, artVars, rejVars, history>>

\* The except block of start_recording.
start_recording_except(g) ==
  /\ startPc[g] = "failing"
  /\ IF RegistryGet(active_recordings, g) # NoSession
       THEN Disconnect(g)
       ELSE UNCHANGED <<connected, recording>>
  /\ startPc' = [startPc EXCEPT ![g] = "idle"]
  /\ UNCHANGED <<active_recordings, timers, output,
                 stopPc, rotPc, leavePc, sessions, nextSid, budget, stopHistory,
                 envVars, artVars, rejVars, history>>

\* ------------------------------------------------------------------- /stop
\* What stop_recording answers at its first statement.
StopCheck(g) ==
  IF RegistryGet(active_recordings, g) = NoSession THEN "NoActiveRecording" ELSE "ok"

\* /stop is invoked: remove() pops the session; without one the handler
\* answers and returns.  Otherwise the Task is stopped and
\* voice_state.stop_recording() is called, which raises at once when no
\* recording is in progress.
stop_recording_call(g) ==
  /\ stopPc[g] = "idle"
  /\ IF StopCheck(g) # "ok"
       THEN UNCHANGED <<active_recordings, sessions, timers, recording, stopPc>>
       ELSE /\ active_recordings' = RegistryRemove(active_recordings, g)
            /\ sessions' = sessions \ {<<g, RegistryGet(active_recordings, g)>>}
            /\ timers' = TaskStop(timers)
            /\ recording' = [recording EXCEPT ![g] = FALSE]
            /\ stopPc' = [stopPc EXCEPT ![g] =
                 IF recording[g] THEN "stopping" ELSE "failing"]
  /\ stopHistory' = [stopHistory EXCEPT ![g] = StopHistoryAfter(@, "stop")]
  /\ UNCHANGED <<connected, output, startPc, rotPc, leavePc,
                 nextSid, budget, envVars, artVars, rejVars, history>>

\* stop_recording() returns: the stop cue is queued, the consent file is
\* loaded and every captured file is processed.
stop_recording_flush(g, gone) ==
  /\ stopPc[g] = "stopping"
  /\ gone \subseteq MayBeGone(g)
  /\ Flush(g, "stop", gone)
  /\ stopPc' = [stopPc EXCEPT ![g] =
       IF FlushRaises(g, gone) THEN "failing" ELSE "flushing"]
  /\ UNCHANGED <<active_recordings, timers, connected, recording, output, startPc,
                 rotPc, leavePc, sessions, nextSid, budget, stopHistory,
                 envVars, rejVars, history>>

\* gather returns: the count is sent, the cue awaited, the voice state
\* disconnected.
stop_recording_finish(g) ==
  /\ stopPc[g] = "flushing"
  /\ Gathered(g, "stop")
  /\ Disconnect(g)
  /\ stopPc' = [stopPc EXCEPT ![g] = "idle"]
  /\ UNCHANGED <<active_recordings, timers, output, startPc, rotPc,
                 leavePc, sessions, nextSid, budget, stopHistory, envVars, artVars, rejVars, history>>

\* The except block of stop_recording.
stop_recording_except(g) ==
  /\ stopPc[g] = "failing"
  /\ IF connected[g] THEN Disconnect(g) ELSE UNCHANGED <<connected, recording>>
  /\ stopPc' = [stopPc EXCEPT ![g] = "idle"]
  /\ UNCHANGED <<active_recordings, timers, output, startPc, rotPc,
                 leavePc, sessions, nextSid, budget, stopHistory, envVars, artVars, rejVars, history>>

\* ------------------------------------------ scheduled_transcription_task
\* The interval trigger fires the callback for the ctx of a live loop.  With
\* no session in the registry the callback returns.  Otherwise
\* voice_state.stop_recording() is called, which raises at once when no
\* recording is in progress.
scheduled_transcription_task(g) ==
  /\ g \in timers
  /\ rotPc[g] = "idle"
  /\ IF RegistryGet(active_recordings, g) = NoSession
       THEN UNCHANGED <<recording, rotPc>>
       ELSE /\ recording' = [recording EXCEPT ![g] = FALSE]
            /\ rotPc' = [rotPc EXCEPT ![g] =
                 IF recording[g] THEN "stopping" ELSE "failing"]
  /\ UNCHANGED <<active_recordings, timers, connected, output, startPc,
                 stopPc, leavePc, sessions, nextSid, budget, stopHistory,
                 envVars, artVars, rejVars, history>>

\* stop_recording() returns: the consent file is loaded and every captured
\* file is processed.
rotation_flush(g, gone) ==
  /\ rotPc[g] = "stopping"
  /\ gone \subseteq MayBeGone(g)
  /\ Flush(g, "rot", gone)
  /\ rotPc' = [rotPc EXCEPT ![g] =
       IF FlushRaises(g, gone) THEN "failing" ELSE "flushing"]
  /\ UNCHANGED <<active_recordings, timers, connected, recording, output, startPc,
                 stopPc, leavePc, sessions, nextSid, budget, stopHistory,
                 envVars, rejVars, history>>

\* gather returns: voice_state.start_recording() is awaited.
rotation_gathered(g) ==
  /\ rotPc[g] = "flushing"
  /\ Gathered(g, "rot")
  /\ rotPc' = [rotPc EXCEPT ![g] = "restarting"]
  /\ UNCHANGED <<active_recordings, timers, connected, recording, output, startPc,
                 stopPc, leavePc, sessions, nextSid, budget, stopHistory,
                 envVars, artVars, rejVars, history>>

\* start_recording() returns with a new recorder, or raises.
rotation_restarted(g, ok) ==
  /\ rotPc[g] = "restarting"
  /\ IF ok /\ connected[g] /\ ~recording[g]
       THEN /\ recording' = [recording EXCEPT ![g] = TRUE]
            /\ output' = [output EXCEPT ![g] = {}]
            /\ rotPc' = [rotPc EXCEPT ![g] = "idle"]
       ELSE /\ rotPc' = [rotPc EXCEPT ![g] = "failing"]
            /\ UNCHANGED <<recording, output>>
  /\ UNCHANGED <<active_recordings, timers, connected, startPc,
                 stopPc, leavePc, sessions, nextSid, budget, stopHistory,
                 envVars, artVars, rejVars, history>>

\* The except block of scheduled_transcription_task.
rotation_except(g) ==
  /\ rotPc[g] = "failing"
  /\ IF connected[g] THEN Disconnect(g) ELSE UNCHANGED <<connected, recording>>
  /\ rotPc' = [rotPc EXCEPT ![g] = "idle"]
  /\ UNCHANGED <<active_recordings, timers, output, startPc,
                 stopPc, leavePc, sessions, nextSid, budget, stopHistory,
                 envVars, artVars, rejVars, history>>

\* ---------------------------------------------------- on_voice_user_leave
\* event.channel.members, read as the members sitting in the voice channel.
\* The leaver is no longer among them, or is excluded by id.
ChannelMembers(g) == {x \in Members : voice[x] = g}

\* remaining: the non-bot members of the channel, other than the one who
\* left, with a key in the consent file.
Remaining(m, g) ==
  {x \in ChannelMembers(g) \ Bots : HasRecord(consent_file, x) /\ x # m}

\* Whether on_voice_user_leave goes on to stop the session.
LeaveStops(m, g) ==
  /\ m \notin Bots
  /\ RegistryGet(active_recordings, g) # NoSession
  /\ Remaining(m, g) = {}

\* A member leaves the guild's voice channel; on_voice_user_leave runs up to
\* its await of voice_state.disconnect().
on_voice_user_leave(m, g) ==
  /\ voice[m] = g
  /\ leavePc[g] = "idle"
  /\ voice' = [voice EXCEPT ![m] = Nowhere]
  /\ IF LeaveStops(m, g)
       THEN /\ timers' = TaskStop(timers)
            /\ leavePc' = [leavePc EXCEPT ![g] = "disconnecting"]
       ELSE UNCHANGED <<timers, leavePc>>
  /\ UNCHANGED <<active_recordings, connected, recording, output, startPc,
                 stopPc, rotPc, sessions, nextSid, budget, stopHistory,
                 consent_file, artVars, rejVars, history>>

\* disconnect() returns: the session is removed and the notice is sent.
on_voice_user_leave_finish(g) ==
  /\ leavePc[g] = "disconnecting"
  /\ Disconnect(g)
  /\ active_recordings' = RegistryRemove(active_recordings, g)
  /\ sessions' = sessions \ {<<g, RegistryGet(active_recordings, g)>>}
  /\ leavePc' = [leavePc EXCEPT ![g] = "idle"]
  /\ UNCHANGED <<timers, output, startPc, stopPc, rotPc, nextSid, budget, stopHistory,
                 envVars, artVars, rejVars, history>>

\* ---------------------------------------------------------------- on_ready
\* One pass of the `async for` body over a delivered message.  kind is
\* "subscribe" (type is not "message"), "malformed" (json.loads raises) or
\* "rejected" (a parsable event of guild g).
Eligible(g) == RegistryGet(active_recordings, g) # NoSession /\ connected[g]

\* The loop body's effect on counter for a parsable event of the queue.
CounterAfter(c, g) ==
  IF c # THRESHOLD THEN c
  ELSE IF RegistryGet(active_recordings, g) # NoSession
    THEN (IF ~connected[g] THEN c ELSE 0 + 1)
  ELSE c + 1

\* voice_state.play(Config.MESSAGE_FILES["error"]) is reached.
CuePlayed(c, g) == c = THRESHOLD /\ Eligible(g)

\* The exception json.loads raises ends the `async for` loop.
ListeningAfter(kind) == kind # "malformed"

on_ready_message(kind, g) ==
  /\ rejArrived < MaxEvents
  /\ rejArrived' = rejArrived + 1
  /\ rejMalformed' = (rejMalformed \/ kind = "malformed")
  /\ IF ~listening \/ kind = "subscribe"
       THEN /\ rejLost' = (rejLost \/ (~listening /\ kind = "rejected"))
            /\ UNCHANGED <<counter, listening, errorCues, rejRun, rejGuild, rejCueAt>>
     ELSE IF kind = "malformed"
       THEN /\ listening' = ListeningAfter(kind)
            /\ UNCHANGED <<counter, errorCues, rejLost, rejRun, rejGuild, rejCueAt>>
     ELSE LET run == IF ~Eligible(g) THEN 0
                     ELSE IF g = rejGuild THEN rejRun + 1
                     ELSE 1
              cues == IF run <= 1 THEN {} ELSE rejCueAt
          IN /\ counter' = CounterAfter(counter, g)
             /\ errorCues' = IF CuePlayed(counter, g) THEN errorCues + 1 ELSE errorCues
             /\ rejRun' = run
             /\ rejGuild' = IF Eligible(g) THEN g ELSE Nowhere
             /\ rejCueAt' = IF CuePlayed(counter, g) THEN cues \cup {run} ELSE cues
             /\ UNCHANGED <<listening, rejLost>>
  /\ UNCHANGED <<sessVars, envVars, artVars, history>>

\* ----------------------------------------------------------- specifications
\* The session events of the guilds of G.
SessionNext(G) ==
  \/ \E m \in Members, g \in G : on_voice_user_join(m, g)
  \/ \E m \in Members, g \in G : on_voice_user_leave(m, g)
  \/ \E g \in G : on_voice_user_leave_finish(g)
  \/ \E u \in Users, g \in G : start_recording_call(u, g)
  \/ \E g \in G : start_recording_connected(g)
  \/ \E g \in G : start_recording_registered(g)
  \/ \E g \in G, ok \in BOOLEAN : start_recording_finish(g, ok)
  \/ \E g \in G : start_recording_except(g)
  \/ \E g \in G : stop_recording_call(g)
  \/ \E g \in G, gone \in SUBSET Members : stop_recording_flush(g, gone)
  \/ \E g \in G : stop_recording_finish(g)
  \/ \E g \in G : stop_recording_except(g)
  \/ \E g \in G : scheduled_transcription_task(g)
  \/ \E g \in G, gone \in SUBSET Members : rotation_flush(g, gone)
  \/ \E g \in G : rotation_gathered(g)
  \/ \E g \in G, ok \in BOOLEAN : rotation_restarted(g, ok)
  \/ \E g \in G : rotation_except(g)

ConsentNext ==
  \E c \in Users, t \in Users, action \in {"allow", "deny"} :
    handle_consent_response(c, t, action)

\* One guild, with captures, consent decisions, publishes and failures.
Next ==
  \/ SessionNext(OneGuild)
  \/ ConsentNext
  \/ \E m \in Members, g \in OneGuild : Speak(m, g)
  \/ \E p \in pubQ, ok \in BOOLEAN : PublishDone(p, ok)

Spec == Init /\ [][Next]_vars

\* One guild, where nobody is captured: the life of its sessions.
NextSessions ==
  \/ SessionNext(OneGuild)
  \/ ConsentNext

SpecSessions == InitSessions /\ [][NextSessions]_vars

\* Two guilds, where nobody is captured.
NextGuilds == SessionNext(Guilds)

SpecGuilds == InitGuilds /\ [][NextGuilds]_vars

\* The rejection consumer beside one guild's sessions.
NextRejections ==
  \/ \E kind \in {"subscribe", "malformed", "rejected"}, g \in Guilds :
       on_ready_message(kind, g)
  \/ SessionNext(OneGuild)

SpecRejections == Init /\ [][NextRejections]_vars

\* ------------------------------------------------------------------ claims

\* C1: in every flush, an artifact pending in that flush (its file is on
\* disk) whose participant had consent denied or no consent record in the
\* consent file as that flush loaded it is removed from disk, and no segment
\* for it is queued for publishing or published, then or later.
C1_UnconsentedRemovedNeverPublished ==
  \A e \in flushLog :
    (e.consent # "allow" /\ e.raw) =>
      /\ files[e.art] = "deleted"
      /\ pubCount[e.art] = 0
      /\ ~\E p \in pubQ : p.art = e.art
      /\ ~\E msg \in published : msg.id = e.art

\* A flush has removed the capture of a participant who had granted consent
\* when the capture began and denied it before the flush.
C1_Witness ==
  \E e \in flushLog :
    /\ e.consent = "deny" /\ e.raw
    /\ arts[e.art].mid
    /\ files[e.art] = "deleted"

\* The messages published for artifact a carry its session's ids.
SegmentsOf(a) == {msg \in published : msg.id = a}

Pending(a) == \E p \in pubQ : p.art = a

\* C3 (as stated): in every flush, each pending artifact of a participant
\* whose consent is granted is relocated and published exactly once, as a
\* segment carrying the session's channelId and guildId.
C3_GrantedPublishedOnce ==
  \A e \in flushLog :
    e.consent = "allow" =>
      /\ files[e.art] = "moved"
      /\ (Pending(e.art) \/ pubCount[e.art] = 1)
      /\ pubCount[e.art] <= 1
      /\ \A msg \in SegmentsOf(e.art) :
           /\ msg.channelId = ChannelOf(arts[e.art].guild)
           /\ msg.guildId = arts[e.art].guild

\* C3 (amended): in every flush, each pending artifact of a participant whose
\* consent is granted and whom the guild still resolves as a member is
\* relocated, not duplicated, and its segment is published at most once:
\* it is awaited, or published exactly once, or its publish call failed;
\* the segment carries the session's channelId and guildId.
C3_ResolvedGrantedPublishedOnce ==
  \A e \in flushLog :
    (e.consent = "allow" /\ e.member /\ e.raw) =>
      /\ files[e.art] = "moved"
      /\ pubCount[e.art] <= 1
      /\ (pubCount[e.art] = 1) = (~Pending(e.art) /\ e.art \notin pubFailed)
      /\ ~(Pending(e.art) /\ e.art \in pubFailed)
      /\ \A msg \in SegmentsOf(e.art) :
           /\ msg.userId = arts[e.art].user
           /\ msg.channelId = ChannelOf(arts[e.art].guild)
           /\ msg.guildId = arts[e.art].guild

\* Both captures of one flush were relocated and published, each once.
C3_Witness ==
  /\ Len(arts) = 2
  /\ \A a \in 1..2 :
       /\ \E e \in flushLog : e.art = a /\ e.consent = "allow" /\ e.member
       /\ files[a] = "moved"
       /\ pubCount[a] = 1
  /\ arts[1].user # arts[2].user

\* C9: when a leave event makes the bot stop a session, the stop is that of
\* /stop: the rotation timer is cancelled, one final flush processes every
\* pending capture, the session leaves the registry and the departure
\* notice is sent (the step on_voice_user_leave_finish).
C9_AutoStopFlushes ==
  [][\A g \in Guilds :
       /\ (\E m \in Members : on_voice_user_leave(m, g) /\ LeaveStops(m, g))
            => g \notin timers'
       /\ on_voice_user_leave_finish(g) =>
            /\ active_recordings'[g] = NoSession
            /\ \A a \in output[g] : \E e \in flushLog' : e.art = a]_vars

C4_CuesAtSevenAndFourteen ==
  (listening /\ rejRun > 0 /\ rejRun = rejArrived) =>
    /\ counter = rejRun % THRESHOLD
    /\ rejRun = 2 * THRESHOLD =>
         (rejCueAt = {THRESHOLD, 2 * THRESHOLD} /\ errorCues = 2)

\* C5: an unparsable message does not end the consumer loop, and no
\* well-formed rejection event arrives without a loop to receive it.
C5_MalformedDropped ==
  /\ rejMalformed => listening
  /\ ~rejLost

\* C6: a /stop invoked after another /stop of the guild, with no /start
\* event in between, answers that no recording is active and changes
\* neither the registry, the timers nor any voice connection.
C6_SecondStopAnswersNoActive ==
  [][\A g \in Guilds :
       (stopHistory[g] \in {"once", "again"} /\ stop_recording_call(g)) =>
         /\ StopCheck(g) = "NoActiveRecording"
         /\ UNCHANGED <<active_recordings, timers, connected, recording>>]_vars

\* A /stop was served for a session and a second /stop was answered.
C6_Witness ==
  /\ stopHistory["gA"] = "again"
  /\ nextSid > 1
  /\ stopPc["gA"] = "idle"

\* C7: when a rotation fails, its except block leaves the session
\* terminated: the timer cancelled, the voice connection released and the
\* registry without a session for the guild.
C7_RotationFailureTerminates ==
  [][\A g \in Guilds :
       rotation_except(g) =>
         /\ g \notin timers'
         /\ ~connected'[g]
         /\ active_recordings'[g] = NoSession]_vars

\* C8: when /start fails, its except block leaves the registry without a
\* session for the guild, so that a later /start of a member of the
\* channel passes the checks.
C8_StartFailureUnregisters ==
  [][\A g \in Guilds :
       start_recording_except(g) =>
         /\ active_recordings'[g] = NoSession
         /\ \A u \in Users : voice[u] = g => StartCheck(u, g)' = "ok"]_vars

\* C10: a step of /start, /stop or the leave listener of guild a leaves the
\* session of another guild b registered and its rotation loop alive.
C10_GuildsIndependent ==
  [][\A a \in Guilds, b \in Guilds :
       (/\ a # b
        /\ \/ stop_recording_call(a)
           \/ stop_recording_finish(a)
           \/ \E m \in Members : on_voice_user_leave(m, a)
           \/ on_voice_user_leave_finish(a)
           \/ \E u \in Users : start_recording_call(u, a)
           \/ start_recording_registered(a)
           \/ \E ok \in BOOLEAN : start_recording_finish(a, ok)) =>
         /\ active_recordings'[b] = active_recordings[b]
         /\ b \in timers => b \in timers']_vars

\* C11: a /start whose requester is not in the guild's voice channel is
\* answered NotInVoice, a /start of a requester in the channel of a guild
\* whose registry entry is occupied is answered AlreadyRecording, and a
\* /start answered either way changes neither the registry, the live
\* sessions, the timers, the voice connection, the capture nor the handler.
C11_RejectedStartChangesNothing ==
  [][\A g \in Guilds, u \in Users :
       start_recording_call(u, g) =>
         /\ voice[u] # g => history'.startReply[g] = "NotInVoice"
         /\ (voice[u] = g /\ active_recordings[g] # NoSession) =>
              history'.startReply[g] = "AlreadyRecording"
         /\ history'.startReply[g] \in {"NotInVoice", "AlreadyRecording"} =>
              UNCHANGED <<active_recordings, sessions, timers, connected,
                          recording, output, startPc, budget>>]_vars

\* A /start was answered AlreadyRecording while the guild's session is
\* registered, connected and rotating on its timer.
C11_Witness ==
  /\ history.startReply["gA"] = "AlreadyRecording"
  /\ active_recordings["gA"] # NoSession
  /\ "gA" \in timers
  /\ connected["gA"]

\* The member whose captures SpecRace follows.
Speakers == {"u1"}

\* One guild with two sessions, where one member grants consent, never
\* withdraws it and is captured: the flushes of /stop and of the rotation
\* beside each other.
InitRace == InitWith(MaxSessions, "untracked", FALSE)

NextRace ==
  \/ SessionNext(OneGuild)
  \/ \E u \in Speakers : handle_consent_response(u, u, "allow")
  \/ \E m \in Speakers, g \in OneGuild : Speak(m, g)
  \/ \E p \in pubQ : PublishDone(p, TRUE)

SpecRace == InitRace /\ [][NextRace]_vars

\* C12: a flush of the rotation or of /stop processes no capture artifact
\* that an earlier flush has processed: each artifact is claimed once.
C12_ClaimedOnce ==
  [][\A g \in Guilds :
       (\E gone \in SUBSET Members :
          rotation_flush(g, gone) \/ stop_recording_flush(g, gone)) =>
         \A a \in output[g] : ~\E e \in flushLog : e.art = a]_vars

\* The rotation of guild g is between voice_state.stop_recording() and the
\* return of voice_state.start_recording().
RotationInFlight(g) == rotPc[g] \in {"stopping", "flushing", "restarting"}

\* C13: while a rotation of a guild is between suspending the capture and
\* re-opening it, no step of /stop executes for that guild.
C13_StopNeverInterleavesRotation ==
  [][\A g \in Guilds :
       RotationInFlight(g) =>
         ~(\/ stop_recording_call(g)
           \/ \E gone \in SUBSET Members : stop_recording_flush(g, gone)
           \/ stop_recording_finish(g)
           \/ stop_recording_except(g))]_vars

\* The operations among /start, /stop and the leave listener that are in
\* progress for guild g.
InProgress(g) ==
  {h \in {"start", "stop", "leave"} :
     \/ h = "start" /\ startPc[g] # "idle"
     \/ h = "stop" /\ stopPc[g] # "idle"
     \/ h = "leave" /\ leavePc[g] # "idle"}

\* C14: at no time are two of /start, /stop and the voice-presence listener
\* in progress for the same guild.
C14_SerializedPerGuild ==
  \A g \in Guilds : Cardinality(InProgress(g)) <= 1

\* C15: once a session of the guild has been stopped and removed, and the
\* registry holds no session for the guild, no rotation flush runs and the
\* rotation does not re-open the capture.
C15_StoppedIsTerminal ==
  [][\A g \in OneGuild :
       (nextSid > 1 /\ active_recordings[g] = NoSession) =>
         /\ ~\E gone \in SUBSET Members : rotation_flush(g, gone)
         /\ ~(rotation_restarted(g, TRUE) /\ recording'[g])]_vars

\* C16: when the processing of one participant's artifact fails inside a
\* flush, the handler that awaits the flush goes on as it was: it is not
\* sent to its except block, where the voice state is disconnected.
C16_FlushFailureAbsorbed ==
  [][\A p \in pubQ :
       PublishDone(p, FALSE) =>
         /\ rotPc'[p.g] # "failing"
         /\ stopPc'[p.g] # "failing"]_vars

\* After member m has left, a non-bot member whose consent is granted or
\* undecided is still in the guild's voice channel.
ConsentedOrUndecidedRemain(m, g) ==
  \E x \in Members \ Bots :
    x # m /\ voice[x] = g /\ consent_file[x] \in {"allow", "none"}

\* C17: on a leave event of a guild with a registered session, the listener
\* goes on to stop the session exactly when no consenting or undecided
\* non-bot member remains in the voice channel.
C17_StopsIffNobodyRemains ==
  [][\A g \in Guilds, m \in Members :
       (on_voice_user_leave(m, g) /\ active_recordings[g] # NoSession) =>
         ((leavePc'[g] = "disconnecting") <=> ~ConsentedOrUndecidedRemain(m, g))]_vars

C20_NoOrphanTimer ==
  \A g \in timers : RegistryGet(active_recordings, g) # NoSession

====
